---- MODULE Spec2Model ----
(***************************************************************************)
(* The execution driver of the zkVM: Executor (risc0/zkvm/src/exec/mod.rs) *)
(* run by run_with_callback.  The state is the Executor's fields, the      *)
(* segments handed to the sink, the journal buffer and the position of the *)
(* run loop.  The collaborators that are not part of exec/mod.rs (page     *)
(* table, memory image, stepper, syscall layer, loader, environment) are   *)
(* modelled from their description; cycle constants and word width are     *)
(* scaled down, SHA_CYCLES keeps its value.                                *)
(***************************************************************************)
EXTENDS Integers, Sequences, FiniteSets, TLC

(* ------------------------------ bounds -------------------------------- *)

\* Number of instructions of a guest program before its final halt / pause.
ProgLen == 2

\* Bytes the guest writes to the journal descriptor in one run of an
\* ExecutorImpl, segments of one such run, and runs of one ExecutorImpl.
MaxJournalLen == 2
MaxImplSegments == 2
MaxRuns == 2

(* ------------------------- program constants -------------------------- *)

SHA_CYCLES == 72
ZK_CYCLES == 8
LOADER_FINI_CYCLES == 8
MIN_CYCLES_PO2 == 8
MAX_CYCLES_PO2 == 10
CYCLES_PER_FULL_PAGE == 8
PAGE_SIZE == 16
WORD_SIZE == 4
MEM_SIZE == 64
\* First byte of the SYSTEM region (the register file image): the last page.
SYSTEM_START == 48
\* Number of registers of the register file.
NumRegs == 3
\* Registers that receive the two result words of a syscall.
REG_A0 == 1
REG_A1 == 2
\* Words are WORD_MOD-valued (2^32 in the code).
WORD_MOD == 16
\* usize arithmetic wraps at USIZE_MOD in a release build (2^64 in the code).
USIZE_MOD == 1048576
\* Base cycles of the syscalls of the model's syscall table.
HALT_CYCLES == 2
SYS_WRITE_CYCLES == 60
SYS_READ_CYCLES == 2
SYS_SHA_CYCLES == 170
\* Entry point of every guest program and the data words it uses.
ENTRY_PC == 8
DATA_A == 20
DATA_B == 24
DATA_C == 28
DATA_D == 32

\* Loader::init_cycles() as the loader may report it.
InitCyclesSet == {16, 72, 152}
\* env.segment_limit_po2 as the caller may configure it.
SegmentLimitPo2Set == MIN_CYCLES_PO2..MAX_CYCLES_PO2
\* env.session_limit as the caller may configure it.
SessionLimitSet == {100, 2000}

(* ------------------------------ helpers ------------------------------- *)

RECURSIVE Pow2(_)
Pow2(n) == IF n <= 0 THEN 1 ELSE 2 * Pow2(n - 1)

\* risc0_zkp::core::log2_ceil: the least r with (1 << r) >= value.
RECURSIVE log2_ceil_from(_, _)
log2_ceil_from(value, result) ==
    IF Pow2(result) < value THEN log2_ceil_from(value, result + 1) ELSE result

log2_ceil(value) == log2_ceil_from(value, 0)

Regs == 0..(NumRegs - 1)
WordAddrs == {a \in 0..(MEM_SIZE - 1) : a % WORD_SIZE = 0}
NumLeafPages == MEM_SIZE \div PAGE_SIZE
LeafPages == 0..(NumLeafPages - 1)
WordsPerPage == PAGE_SIZE \div WORD_SIZE
PageOf(addr) == addr \div PAGE_SIZE

(* ----------------------------- page table ----------------------------- *)
\* A Merkle overlay over the leaf pages: one page of leaf digests and the
\* root page above it.

MidPage == NumLeafPages
RootPage == NumLeafPages + 1
Pages == 0..RootPage

\* The page itself and every ancestor page on the path to the root.
PagePath(p) ==
    IF p = RootPage THEN {RootPage}
    ELSE IF p = MidPage THEN {MidPage, RootPage}
    ELSE {p, MidPage, RootPage}

EmptyPageTable == [loaded |-> {}, dirty |-> {}]

\* PageTable::pages_needed: the pages that would transition on a marking.
pages_needed(pt, page, dir) ==
    IF dir = "Load" THEN PagePath(page) \ pt.loaded ELSE PagePath(page) \ pt.dirty

\* PageTable::cycles_needed: incremental cycles of a marking, 0 if no change.
cycles_needed(pt, page, dir) ==
    Cardinality(pages_needed(pt, page, dir)) * CYCLES_PER_FULL_PAGE

\* PageTable::mark_page: commit the marking (the cycles are cycles_needed).
mark_page(pt, page, dir) ==
    IF dir = "Load"
    THEN [pt EXCEPT !.loaded = @ \cup PagePath(page)]
    ELSE [pt EXCEPT !.dirty = @ \cup PagePath(page)]

mark_addr(pt, addr, dir) == mark_page(pt, PageOf(addr), dir)

\* PageTable::mark_root: the root is resident and flushed in every segment.
mark_root_table(pt) ==
    [pt EXCEPT !.loaded = @ \cup {RootPage}, !.dirty = @ \cup {RootPage}]
mark_root_read_cycles == CYCLES_PER_FULL_PAGE
mark_root_write_cycles == CYCLES_PER_FULL_PAGE

\* PageTable::calc_page_faults: the pages loaded / flushed in the segment.
calc_page_faults(pt) == [reads |-> pt.loaded, writes |-> pt.dirty]

\* PageTable::clear.
clear_table(pt) == EmptyPageTable

(* ---------------------------- memory image ---------------------------- *)
\* mem: the page contents; pc: the embedded PC; stale: pages whose digest
\* is not current; digest: per-page digest (the content it was taken of);
\* root: the root digest, over the page digests and the PC.

PageContent(mem, p) == [i \in 0..(WordsPerPage - 1) |-> mem[p * PAGE_SIZE + i * WORD_SIZE]]

hash_pages(img) ==
    LET d == [p \in LeafPages |->
                 IF p \in img.stale THEN PageContent(img.mem, p) ELSE img.digest[p]]
    IN [img EXCEPT !.digest = d, !.stale = {}, !.root = [digest |-> d, pc |-> img.pc]]

compute_id(img) == img.root

\* store_region_in_page(addr, words): words written from addr on.
store_region_in_page(img, addr, words) ==
    [img EXCEPT
        !.mem = [a \in WordAddrs |->
                    IF a >= addr /\ a < addr + WORD_SIZE * Len(words)
                    THEN words[((a - addr) \div WORD_SIZE) + 1] ELSE @[a]],
        !.stale = @ \cup {PageOf(addr)}]

\* load_region_in_page(addr, n): the n words from addr on.
load_region_in_page(img, addr, n) ==
    [i \in 1..n |-> img.mem[addr + WORD_SIZE * (i - 1)]]

\* memory::image_to_ram: RAM is the image's pages.
image_to_ram(img) == img.mem

\* memory::ram_to_image: copy the given pages of RAM back into the image.
ram_to_image(img, ram, pages) ==
    [img EXCEPT
        !.mem = [a \in WordAddrs |-> IF PageOf(a) \in pages THEN ram[a] ELSE @[a]],
        !.stale = @ \cup (pages \cap LeafPages)]

\* The image every run starts from: one data word set, register 1 set.
InitialMem ==
    [a \in WordAddrs |->
        IF a = DATA_A THEN 5 ELSE IF a = SYSTEM_START + WORD_SIZE * 1 THEN 1 ELSE 0]

InitialImage ==
    hash_pages([mem |-> InitialMem, pc |-> ENTRY_PC, stale |-> LeafPages,
                digest |-> [p \in LeafPages |-> <<>>], root |-> <<>>])

(* ------------------------------ stepper ------------------------------- *)
\* The guest program: the instruction at ENTRY_PC + 4 * (i - 1) is prog[i].

None == [kind |-> "None"]

BodyInstrs ==
    { [op |-> "lw", rd |-> 0, addr |-> DATA_A],
      [op |-> "lw", rd |-> 2, addr |-> DATA_A],
      [op |-> "sw", rs |-> 1, addr |-> DATA_B],
      [op |-> "addi", rd |-> 1, rs |-> 1, imm |-> 1],
      [op |-> "addi", rd |-> 0, rs |-> 1, imm |-> 3],
      [op |-> "ecall", name |-> "sys_write"],
      [op |-> "ecall", name |-> "sys_read"],
      [op |-> "ecall", name |-> "sys_sha"],
      [op |-> "ecall", name |-> "sys_bogus"] }

FinalInstrs ==
    { [op |-> "ecall", name |-> "halt"], [op |-> "ecall", name |-> "pause"] }

Programs ==
    { body \o <<fin>> : body \in [1..ProgLen -> BodyInstrs], fin \in FinalInstrs }

InstrIndex(at) == ((at - ENTRY_PC) \div WORD_SIZE) + 1

HasInstr(program, at) ==
    at >= ENTRY_PC /\ at % WORD_SIZE = 0 /\ InstrIndex(at) <= Len(program)

\* rv32im::exec_rv32im: the pending instruction of the instruction at `at`,
\* its operands read through load_ram / load_reg; nothing is mutated.
exec_rv32im(program, at, memory, registers) ==
    LET insn == program[InstrIndex(at)]
    IN CASE insn.op = "lw" ->
              [kind |-> "MemoryLoad", addr |-> insn.addr,
               val |-> memory[insn.addr], reg |-> insn.rd]
         [] insn.op = "sw" ->
              [kind |-> "MemoryStore", addr |-> insn.addr, val |-> registers[insn.rs]]
         [] insn.op = "addi" ->
              [kind |-> "RegisterStore", reg |-> insn.rd,
               val |-> (registers[insn.rs] + insn.imm) % WORD_MOD,
               new_pc |-> at + WORD_SIZE, cycles |-> 1]
         [] OTHER -> [kind |-> "ECall", name |-> insn.name]

(* --------------------------- syscall layer ---------------------------- *)

KnownSyscalls == {"halt", "pause", "sys_write", "sys_read", "sys_sha"}

\* The host's input stream, word i of it.
InputWord(i) == (3 + 2 * i) % WORD_MOD

NoRecord == [present |-> FALSE]
NoExit == [kind |-> "NoExit"]
Halted(c) == [kind |-> "Halted", code |-> c]
Paused(c) == [kind |-> "Paused", code |-> c]
SystemSplit == [kind |-> "SystemSplit"]

\* ecall::exec_ecall: the pending ecall of the named syscall; the handler
\* reads guest state (registers) and the host input from position `ipos`.
exec_ecall(name, registers, ipos) ==
    CASE name = "halt" ->
           [kind |-> "PendingECall", ram_writes |-> <<>>, reg_writes |-> <<>>,
            page_loads |-> {}, syscall |-> NoRecord,
            exit_code |-> Halted(0), cycles |-> HALT_CYCLES]
      [] name = "pause" ->
           [kind |-> "PendingECall", ram_writes |-> <<>>, reg_writes |-> <<>>,
            page_loads |-> {}, syscall |-> NoRecord,
            exit_code |-> Paused(0), cycles |-> HALT_CYCLES]
      [] name = "sys_write" ->
           [kind |-> "PendingECall", ram_writes |-> <<>>,
            reg_writes |-> << <<REG_A0, 0>>, <<REG_A1, 0>> >>,
            page_loads |-> {},
            syscall |-> [present |-> TRUE, to_guest |-> <<>>, regs |-> <<0, 0>>],
            exit_code |-> NoExit, cycles |-> SYS_WRITE_CYCLES]
      [] name = "sys_sha" ->
           [kind |-> "PendingECall",
            ram_writes |-> << <<DATA_D, 7>>, <<DATA_D, 9>> >>,
            reg_writes |-> << <<REG_A0, 0>>, <<REG_A1, 0>> >>,
            page_loads |-> {PageOf(DATA_A)}, syscall |-> NoRecord,
            exit_code |-> NoExit, cycles |-> SYS_SHA_CYCLES]
      [] OTHER ->
           [kind |-> "PendingECall",
            ram_writes |-> << <<DATA_C, InputWord(ipos)>>, <<DATA_D, InputWord(ipos + 1)>> >>,
            reg_writes |-> << <<REG_A0, 2>>, <<REG_A1, 0>> >>,
            page_loads |-> {PageOf(DATA_A)},
            syscall |-> [present |-> TRUE,
                         to_guest |-> <<InputWord(ipos), InputWord(ipos + 1)>>,
                         regs |-> <<2, 0>>],
            exit_code |-> NoExit, cycles |-> SYS_READ_CYCLES]

\* The handler's effects on the host: bytes appended to the journal writer
\* and words consumed from the input stream.
ecall_journal(name, registers) == IF name = "sys_write" THEN <<registers[REG_A0]>> ELSE <<>>
ecall_input(name) == IF name = "sys_read" THEN 2 ELSE 0

(* ------------------------------- state -------------------------------- *)

VARIABLES
    env,                  \* [segment_limit_po2, session_limit]
    prog,                 \* the guest program the stepper decodes
    cur_segment,          \* [index, pre_image, po2, insn_cycles, syscalls]
    segment_limit,
    segment_cycle,
    read_cycles,
    write_cycles,
    init_cycles,
    fini_cycles,
    prev_segment_cycles,
    pc,
    regs,
    ram,
    page_table,
    pending_op,
    segments,             \* the handles the sink returned, in order
    journal,              \* the journal capture buffer
    input_pos,            \* words the host input stream has handed out
    loop_pc,              \* position of run_with_callback
    exit_code,            \* run_with_callback's exit_code
    session,              \* the Session returned, None before
    error,                \* the error the run failed with, "" if none
    events,               \* trace events emitted by the last step
    run_no,               \* 1: first run; 2: the same program run again
    first_run,            \* outcome of the first run, None before
    committed,            \* history: instructions committed in this run
    handler_calls,        \* history: syscall handler invocations in this run
    seg_stored,           \* history: pages of RAM words written in this segment
    seg_loaded            \* history: pages fetched from or loaded in this segment

\* The state of an ExecutorImpl (host/server/exec/executor.rs) and of its
\* run_with_callback.
VARIABLES
    impl_image,           \* ExecutorImpl::image
    accessed,             \* env.assumptions.accessed
    profiler,             \* ExecutorImpl::profiler is Some
    journal_buf,          \* the Journal buffer of the run
    refs,                 \* the segments the callback was given, in order
    exec_image,           \* the image the inner Executor holds
    result,               \* what exec.run returned, None before
    impl_pc,              \* "idle", "running", "returned"
    impl_session,         \* the Session the last run returned, None if none
    impl_error,           \* the error the last run failed with, "" if none
    runs,                 \* runs started on this ExecutorImpl
    written,              \* history: bytes the guest wrote in this run
    run_accessed,         \* history: assumptions the guest accessed in this run
    resumed               \* history: this run follows a successful run

impl_vars ==
    <<impl_image, accessed, profiler, journal_buf, refs, exec_image, result,
      impl_pc, impl_session, impl_error, runs, written, run_accessed,
      resumed>>

vars ==
    <<impl_vars, env, prog, cur_segment, segment_limit, segment_cycle, read_cycles,
      write_cycles, init_cycles, fini_cycles, prev_segment_cycles, pc, regs, ram,
      page_table, pending_op, segments, journal, input_pos, loop_pc, exit_code,
      session, error, events, run_no, first_run, committed, handler_calls,
      seg_stored, seg_loaded>>

\* The register file left at its default instead of read from the image.
image_to_regs_default(img) == [r \in Regs |-> 0]

\* Executor::image_to_regs: the register file is read from the SYSTEM region.
image_to_regs(img) ==
    LET words == load_region_in_page(img, SYSTEM_START, NumRegs)
    IN [r \in Regs |-> words[r + 1]]

\* Executor::regs_to_image: registers into the SYSTEM region, PC embedded.
regs_to_image(img, registers, at) ==
    [store_region_in_page(img, SYSTEM_START, [i \in 1..NumRegs |-> registers[i - 1]])
        EXCEPT !.pc = at]

\* ExecutorEnv::get_segment_limit: the cap on a segment's cycles.
get_segment_limit(e) == Pow2(e.segment_limit_po2)

\* Executor::start_segment for the segment `seg`, as a record of the
\* fields it sets.
start_segment_no_reset(seg, rd, ic, fc, pt) ==
    LET sc == ic
        rc == rd + mark_root_read_cycles
        wc == mark_root_write_cycles
        po2 == log2_ceil(sc + rc + wc + fc)
    IN [segment_cycle |-> sc, read_cycles |-> rc, write_cycles |-> wc,
        segment_limit |-> Pow2(po2), cur_segment |-> [seg EXCEPT !.po2 = po2],
        page_table |-> mark_root_table(pt)]

start_segment(seg, rd, ic, fc, pt) ==
    LET sc == ic
        rc == rd + mark_root_read_cycles
        wc == mark_root_write_cycles
        po2 == log2_ceil(sc + rc + wc + fc)
    IN [segment_cycle |-> sc, read_cycles |-> rc, write_cycles |-> wc,
        segment_limit |-> Pow2(po2),
        cur_segment |-> [seg EXCEPT !.po2 = po2, !.insn_cycles = 0],
        page_table |-> mark_root_table(pt)]

\* Executor::new followed by the start of run_with_callback: the state a
\* run starts in, for the given environment, loader cycles and program.
NewExecutor(e, ic, pr) ==
    LET fc == LOADER_FINI_CYCLES + SHA_CYCLES + ZK_CYCLES
        seg == [index |-> 0, pre_image |-> InitialImage, po2 |-> MIN_CYCLES_PO2,
                insn_cycles |-> 0, syscalls |-> <<>>]
        st == start_segment(seg, 0, ic, fc, EmptyPageTable)
    IN [env |-> e, prog |-> pr, init_cycles |-> ic, fini_cycles |-> fc,
        cur_segment |-> st.cur_segment,
        segment_limit |-> st.segment_limit, segment_cycle |-> st.segment_cycle,
        read_cycles |-> st.read_cycles, write_cycles |-> st.write_cycles,
        regs |-> image_to_regs(InitialImage), ram |-> image_to_ram(InitialImage),
        page_table |-> st.page_table]

\* The ExecutorImpl after with_details, for the given image and profiler.
InitImplState(img, prof) ==
    /\ impl_image = img
    /\ accessed = {}
    /\ profiler = prof
    /\ journal_buf = <<>>
    /\ refs = <<>>
    /\ exec_image = img
    /\ result = None
    /\ impl_pc = "idle"
    /\ impl_session = None
    /\ impl_error = ""
    /\ runs = 0
    /\ written = <<>>
    /\ run_accessed = {}
    /\ resumed = FALSE

\* The Executor after Executor::new, at the start of run_with_callback.
InitExecutor(e, ic, pr) ==
        LET ex == NewExecutor(e, ic, pr)
        IN /\ env = ex.env
           /\ prog = ex.prog
           /\ init_cycles = ex.init_cycles
           /\ fini_cycles = ex.fini_cycles
           /\ cur_segment = ex.cur_segment
           /\ segment_limit = ex.segment_limit
           /\ segment_cycle = ex.segment_cycle
           /\ read_cycles = ex.read_cycles
           /\ write_cycles = ex.write_cycles
           /\ prev_segment_cycles = 0
           /\ pc = ENTRY_PC
           /\ regs = ex.regs
           /\ ram = ex.ram
           /\ page_table = ex.page_table
           /\ pending_op = None
           /\ segments = <<>>
           /\ journal = <<>>
           /\ input_pos = 0
           /\ loop_pc = "step"
           /\ exit_code = NoExit
           /\ session = None
           /\ error = ""
           /\ events = <<>>
           /\ run_no = 1
           /\ first_run = None
           /\ committed = 0
           /\ handler_calls = 0
           /\ seg_stored = {}
           /\ seg_loaded = {}

Init ==
    /\ \E e \in [segment_limit_po2 : SegmentLimitPo2Set, session_limit : SessionLimitSet],
          ic \in InitCyclesSet, pr \in Programs : InitExecutor(e, ic, pr)
    /\ InitImplState(0, FALSE)

(* -------------------------------- apply ------------------------------- *)

config == <<env, prog, init_cycles, fini_cycles, run_no, first_run, impl_vars>>

InstructionStart(c, at) == [type |-> "InstructionStart", cycle |-> c, pc |-> at]
RegisterSet(r, v) == [type |-> "RegisterSet", reg |-> r, value |-> v]
MemorySet(a, v) == [type |-> "MemorySet", addr |-> a, value |-> v]

\* Executor::segment_cycles_remaining on the integers (below 0: the usize
\* subtraction overflows).
remaining_exact ==
    segment_limit - segment_cycle - read_cycles - write_cycles - fini_cycles - 1

\* Executor::segment_cycles_remaining as a usize that wrapped around.
segment_cycles_remaining ==
    IF remaining_exact < 0 THEN remaining_exact + USIZE_MOD ELSE remaining_exact

\* calc_ecall_pages without the stored pages among the loaded ones.
calc_ecall_pages_no_extend(pt, ecall) ==
    LET page_stores == {PageOf(ecall.ram_writes[i][1]) : i \in DOMAIN ecall.ram_writes}
        page_loads == ecall.page_loads
    IN [loads |-> UNION {pages_needed(pt, p, "Load") : p \in page_loads},
        stores |-> UNION {pages_needed(pt, p, "Store") : p \in page_stores}]

\* Executor::calc_ecall_pages: the pages an ecall's commit loads and stores.
calc_ecall_pages(pt, ecall) ==
    LET page_stores == {PageOf(ecall.ram_writes[i][1]) : i \in DOMAIN ecall.ram_writes}
        page_loads == ecall.page_loads \cup page_stores
    IN [loads |-> UNION {pages_needed(pt, p, "Load") : p \in page_loads},
        stores |-> UNION {pages_needed(pt, p, "Store") : p \in page_stores}]

\* The first match of apply: the cycles the op needs by its kind.
op_cycles_needed(pt, op) ==
    CASE op.kind = "MemoryLoad" -> cycles_needed(pt, PageOf(op.addr), "Load") + 1
      [] op.kind = "MemoryStore" ->
           cycles_needed(pt, PageOf(op.addr), "Load")
             + cycles_needed(pt, PageOf(op.addr), "Store") + 1
      [] op.kind = "RegisterStore" -> op.cycles
      [] OTHER ->
           LET pages == calc_ecall_pages(pt, op)
           IN Cardinality(pages.loads) * CYCLES_PER_FULL_PAGE
                + Cardinality(pages.stores) * CYCLES_PER_FULL_PAGE + op.cycles

\* cycles_needed of apply: the op's cycles and the instruction-fetch page.
apply_cycles_needed(pt, at, op) ==
    op_cycles_needed(pt, op) + cycles_needed(pt, PageOf(at), "Load")

\* Marking a set of pages one after the other: the table and the cycles.
RECURSIVE mark_pages(_, _, _)
mark_pages(pt, pages, dir) ==
    IF pages = {} THEN [table |-> pt, cycles |-> 0]
    ELSE LET p == CHOOSE q \in pages : TRUE
             rest == mark_pages(mark_page(pt, p, dir), pages \ {p}, dir)
         IN [table |-> rest.table, cycles |-> cycles_needed(pt, p, dir) + rest.cycles]

\* The register writes of an ecall, applied in order.
RECURSIVE apply_reg_writes(_, _)
apply_reg_writes(registers, writes) ==
    IF writes = <<>> THEN registers
    ELSE apply_reg_writes([registers EXCEPT ![Head(writes)[1]] = Head(writes)[2]],
                          Tail(writes))

\* The RAM writes of an ecall, applied last to first.
RECURSIVE apply_ram_writes_reversed(_, _)
apply_ram_writes_reversed(memory, writes) ==
    IF writes = <<>> THEN memory
    ELSE [apply_ram_writes_reversed(memory, Tail(writes))
             EXCEPT ![Head(writes)[1]] = Head(writes)[2]]

\* The RAM writes of an ecall, applied in order.
RECURSIVE apply_ram_writes(_, _)
apply_ram_writes(memory, writes) ==
    IF writes = <<>> THEN memory
    ELSE apply_ram_writes([memory EXCEPT ![Head(writes)[1]] = Head(writes)[2]],
                          Tail(writes))

\* The marking of a committed Memory-Store: the store side, and the load
\* side when the store added write cycles.
commit_store_marks(pt, addr) ==
    LET wc == cycles_needed(pt, PageOf(addr), "Store")
        pt2 == mark_addr(pt, addr, "Store")
    IN IF wc > 0
       THEN [table |-> mark_addr(pt2, addr, "Load"), write |-> wc,
             read |-> cycles_needed(pt2, PageOf(addr), "Load")]
       ELSE [table |-> pt2, write |-> 0, read |-> 0]

\* The register write of a committed Memory-Load.
commit_load_reg(registers, reg, val) == [registers EXCEPT ![reg] = val]

\* The register write of a committed RegisterStore.
commit_regstore_reg(registers, reg, val) ==
    IF reg # 0 THEN [registers EXCEPT ![reg] = val] ELSE registers

\* insn_cycles after a commit.
commit_insn_cycles(n) == n + 1

\* The op step() hands to apply: the pending op if one is held, else the
\* pending instruction of the stepper.
StepOp == IF pending_op # None THEN pending_op ELSE exec_rv32im(prog, pc, ram, regs)

Stepping == loop_pc = "step" /\ (pending_op # None \/ HasInstr(prog, pc))

OutOfCycles ==
    /\ Stepping
    /\ StepOp.kind # "ECall"
    /\ remaining_exact >= 0
    /\ apply_cycles_needed(page_table, pc, StepOp) >= segment_cycles_remaining

\* The op fits; when remaining_exact < 0 this is the release build, whose
\* subtraction wrapped.
Fits(kind) ==
    /\ Stepping
    /\ StepOp.kind = kind
    /\ apply_cycles_needed(page_table, pc, StepOp) < segment_cycles_remaining

(* ------------------------------- step() ------------------------------- *)

\* apply of the ECall marker that already counts the instruction.
StepECall_counted ==
    /\ Stepping
    /\ StepOp.kind = "ECall"
    /\ StepOp.name \in KnownSyscalls
    /\ pending_op' = exec_ecall(StepOp.name, regs, input_pos)
    /\ journal' = journal \o ecall_journal(StepOp.name, regs)
    /\ input_pos' = input_pos + ecall_input(StepOp.name)
    /\ handler_calls' = handler_calls + 1
    /\ cur_segment' = [cur_segment EXCEPT !.insn_cycles = @ + 1]
    /\ events' = <<InstructionStart(segment_cycle, pc)>>
    /\ exit_code' = NoExit
    /\ loop_pc' = "check"
    /\ UNCHANGED <<config, segment_limit, segment_cycle, read_cycles,
                   write_cycles, prev_segment_cycles, pc, regs, ram, page_table,
                   segments, session, error, committed, seg_stored, seg_loaded>>

\* apply of the ECall marker: the syscall layer is invoked and its pending
\* ecall becomes the pending op.
StepECall ==
    /\ Stepping
    /\ StepOp.kind = "ECall"
    /\ StepOp.name \in KnownSyscalls
    /\ pending_op' = exec_ecall(StepOp.name, regs, input_pos)
    /\ journal' = journal \o ecall_journal(StepOp.name, regs)
    /\ input_pos' = input_pos + ecall_input(StepOp.name)
    /\ handler_calls' = handler_calls + 1
    /\ events' = <<>>
    /\ exit_code' = NoExit
    /\ loop_pc' = "check"
    /\ UNCHANGED <<config, cur_segment, segment_limit, segment_cycle, read_cycles,
                   write_cycles, prev_segment_cycles, pc, regs, ram, page_table,
                   segments, session, error, committed, seg_stored, seg_loaded>>

\* The lookup miss swallowed: the ecall is skipped as if it had returned.
StepUnknownSyscall_skipped ==
    /\ Stepping
    /\ StepOp.kind = "ECall"
    /\ StepOp.name \notin KnownSyscalls
    /\ pending_op' = None
    /\ events' = <<>>
    /\ pc' = pc + WORD_SIZE
    /\ exit_code' = NoExit
    /\ loop_pc' = "check"
    /\ UNCHANGED <<config, cur_segment, segment_limit, segment_cycle, read_cycles,
                   write_cycles, prev_segment_cycles, regs, ram, page_table,
                   segments, journal, input_pos, session, error, committed,
                   handler_calls, seg_stored, seg_loaded>>

\* apply of the ECall marker when the syscall table has no such handler.
StepUnknownSyscall ==
    /\ Stepping
    /\ StepOp.kind = "ECall"
    /\ StepOp.name \notin KnownSyscalls
    /\ pending_op' = None
    /\ events' = <<>>
    /\ error' = "Unknown syscall"
    /\ loop_pc' = "failed"
    /\ UNCHANGED <<config, cur_segment, segment_limit, segment_cycle, read_cycles,
                   write_cycles, prev_segment_cycles, pc, regs, ram, page_table,
                   segments, journal, input_pos, exit_code, session, committed,
                   handler_calls, seg_stored, seg_loaded>>

\* segment_cycles_remaining overflows: a build with overflow checks aborts.
StepRemainingOverflow ==
    /\ Stepping
    /\ StepOp.kind # "ECall"
    /\ remaining_exact < 0
    /\ pending_op' = None
    /\ events' = <<>>
    /\ error' = "attempt to subtract with overflow"
    /\ loop_pc' = "panicked"
    /\ UNCHANGED <<config, cur_segment, segment_limit, segment_cycle, read_cycles,
                   write_cycles, prev_segment_cycles, pc, regs, ram, page_table,
                   segments, journal, input_pos, exit_code, session, committed,
                   handler_calls, seg_stored, seg_loaded>>

\* handle_out_of_cycles that answers no-exit without expanding the segment.
StepGrow_stuck ==
    /\ OutOfCycles
    /\ segment_limit < get_segment_limit(env)
    /\ cur_segment.po2 + 1 < MAX_CYCLES_PO2
    /\ pending_op' = pending_op
    /\ events' = <<>>
    /\ exit_code' = NoExit
    /\ loop_pc' = "check"
    /\ UNCHANGED <<config, cur_segment, segment_limit, segment_cycle, read_cycles,
                   write_cycles, prev_segment_cycles, pc, regs, ram, page_table,
                   segments, journal, input_pos, session, error, committed,
                   handler_calls, seg_stored, seg_loaded>>

\* Expand in place with the instruction-fetch page marked before the fit
\* test.
StepGrow_marked ==
    /\ OutOfCycles
    /\ segment_limit < get_segment_limit(env)
    /\ cur_segment.po2 + 1 < MAX_CYCLES_PO2
    /\ cur_segment' = [cur_segment EXCEPT !.po2 = @ + 1]
    /\ segment_limit' = Pow2(cur_segment.po2 + 1)
    /\ read_cycles' = read_cycles + cycles_needed(page_table, PageOf(pc), "Load")
    /\ page_table' = mark_addr(page_table, pc, "Load")
    /\ pending_op' = None
    /\ events' = <<>>
    /\ exit_code' = NoExit
    /\ loop_pc' = "check"
    /\ UNCHANGED <<config, segment_cycle, write_cycles,
                   prev_segment_cycles, pc, regs, ram, segments,
                   journal, input_pos, session, error, committed, handler_calls,
                   seg_stored, seg_loaded>>

\* handle_out_of_cycles, expand in place.
StepGrow ==
    /\ OutOfCycles
    /\ segment_limit < get_segment_limit(env)
    /\ cur_segment.po2 + 1 < MAX_CYCLES_PO2
    /\ cur_segment' = [cur_segment EXCEPT !.po2 = @ + 1]
    /\ segment_limit' = Pow2(cur_segment.po2 + 1)
    /\ pending_op' = None
    /\ events' = <<>>
    /\ exit_code' = NoExit
    /\ loop_pc' = "check"
    /\ UNCHANGED <<config, segment_cycle, read_cycles, write_cycles,
                   prev_segment_cycles, pc, regs, ram, page_table, segments,
                   journal, input_pos, session, error, committed, handler_calls,
                   seg_stored, seg_loaded>>

\* handle_out_of_cycles, expand in place: the assertion on po2 fails.
StepGrowAssert ==
    /\ OutOfCycles
    /\ segment_limit < get_segment_limit(env)
    /\ ~(cur_segment.po2 + 1 < MAX_CYCLES_PO2)
    /\ cur_segment' = [cur_segment EXCEPT !.po2 = @ + 1]
    /\ pending_op' = None
    /\ events' = <<>>
    /\ error' = "assertion failed: po2 < MAX_CYCLES_PO2"
    /\ loop_pc' = "panicked"
    /\ UNCHANGED <<config, segment_limit, segment_cycle, read_cycles, write_cycles,
                   prev_segment_cycles, pc, regs, ram, page_table, segments,
                   journal, input_pos, exit_code, session, committed,
                   handler_calls, seg_stored, seg_loaded>>

\* handle_out_of_cycles at the cap: the step returns SystemSplit.
StepOutOfCycles ==
    /\ OutOfCycles
    /\ ~(segment_limit < get_segment_limit(env))
    /\ pending_op' = None
    /\ events' = <<>>
    /\ exit_code' = SystemSplit
    /\ loop_pc' = "split"
    /\ UNCHANGED <<config, cur_segment, segment_limit, segment_cycle, read_cycles,
                   write_cycles, prev_segment_cycles, pc, regs, ram, page_table,
                   segments, journal, input_pos, session, error, committed,
                   handler_calls, seg_stored, seg_loaded>>

\* Commit of a Memory-Load.
StepLoad ==
    /\ Fits("MemoryLoad")
    /\ LET op == StepOp
           pt1 == mark_addr(page_table, pc, "Load")
       IN /\ read_cycles' = read_cycles
                  + cycles_needed(page_table, PageOf(pc), "Load")
                  + cycles_needed(pt1, PageOf(op.addr), "Load")
          /\ page_table' = mark_addr(pt1, op.addr, "Load")
          /\ regs' = commit_load_reg(regs, op.reg, op.val)
          /\ events' = <<InstructionStart(segment_cycle, pc), RegisterSet(op.reg, op.val)>>
          /\ seg_loaded' = seg_loaded \cup {PageOf(pc), PageOf(op.addr)}
    /\ cur_segment' = [cur_segment EXCEPT !.insn_cycles = commit_insn_cycles(@)]
    /\ segment_cycle' = segment_cycle + 1
    /\ pc' = pc + WORD_SIZE
    /\ pending_op' = None
    /\ committed' = committed + 1
    /\ exit_code' = NoExit
    /\ loop_pc' = "check"
    /\ UNCHANGED <<config, segment_limit, write_cycles, prev_segment_cycles, ram,
                   segments, journal, input_pos, session, error, handler_calls,
                   seg_stored>>

\* Commit of a Memory-Store.
StepStore ==
    /\ Fits("MemoryStore")
    /\ LET op == StepOp
           pt1 == mark_addr(page_table, pc, "Load")
           marks == commit_store_marks(pt1, op.addr)
       IN /\ read_cycles' = read_cycles
                  + cycles_needed(page_table, PageOf(pc), "Load") + marks.read
          /\ write_cycles' = write_cycles + marks.write
          /\ page_table' = marks.table
          /\ ram' = [ram EXCEPT ![op.addr] = op.val]
          /\ events' = <<InstructionStart(segment_cycle, pc), MemorySet(op.addr, op.val)>>
          /\ seg_stored' = seg_stored \cup {PageOf(op.addr)}
          /\ seg_loaded' = seg_loaded \cup {PageOf(pc)}
    /\ cur_segment' = [cur_segment EXCEPT !.insn_cycles = commit_insn_cycles(@)]
    /\ segment_cycle' = segment_cycle + 1
    /\ pc' = pc + WORD_SIZE
    /\ pending_op' = None
    /\ committed' = committed + 1
    /\ exit_code' = NoExit
    /\ loop_pc' = "check"
    /\ UNCHANGED <<config, segment_limit, prev_segment_cycles, regs, segments,
                   journal, input_pos, session, error, handler_calls>>

\* Commit of a RegisterStore.
StepRegisterStore ==
    /\ Fits("RegisterStore")
    /\ LET op == StepOp
       IN /\ read_cycles' = read_cycles + cycles_needed(page_table, PageOf(pc), "Load")
          /\ page_table' = mark_addr(page_table, pc, "Load")
          /\ segment_cycle' = segment_cycle + op.cycles
          /\ regs' = commit_regstore_reg(regs, op.reg, op.val)
          /\ pc' = op.new_pc
          /\ events' = <<InstructionStart(segment_cycle, pc), RegisterSet(op.reg, op.val)>>
          /\ seg_loaded' = seg_loaded \cup {PageOf(pc)}
    /\ cur_segment' = [cur_segment EXCEPT !.insn_cycles = commit_insn_cycles(@)]
    /\ pending_op' = None
    /\ committed' = committed + 1
    /\ exit_code' = NoExit
    /\ loop_pc' = "check"
    /\ UNCHANGED <<config, segment_limit, write_cycles, prev_segment_cycles, ram,
                   segments, journal, input_pos, session, error, handler_calls,
                   seg_stored>>

\* Commit of a Pending ECall; the step returns the ecall's exit code.
StepPendingECall ==
    /\ Fits("PendingECall")
    /\ LET op == StepOp
           pt1 == mark_addr(page_table, pc, "Load")
           pages == calc_ecall_pages(pt1, op)
           loaded == mark_pages(pt1, pages.loads, "Load")
           stored == mark_pages(loaded.table, pages.stores, "Store")
       IN /\ segment_cycle' = segment_cycle + op.cycles
          /\ read_cycles' = read_cycles
                  + cycles_needed(page_table, PageOf(pc), "Load") + loaded.cycles
          /\ write_cycles' = write_cycles + stored.cycles
          /\ page_table' = stored.table
          /\ regs' = apply_reg_writes(regs, op.reg_writes)
          /\ ram' = apply_ram_writes(ram, op.ram_writes)
          /\ events' = <<InstructionStart(segment_cycle, pc)>>
                  \o [i \in DOMAIN op.reg_writes |->
                         RegisterSet(op.reg_writes[i][1], op.reg_writes[i][2])]
                  \o [i \in DOMAIN op.ram_writes |->
                         MemorySet(op.ram_writes[i][1], op.ram_writes[i][2])]
          /\ cur_segment' =
                 [cur_segment EXCEPT
                    !.insn_cycles = commit_insn_cycles(@),
                    !.syscalls = IF op.syscall.present THEN Append(@, op.syscall) ELSE @]
          /\ seg_stored' = seg_stored
                  \cup {PageOf(op.ram_writes[i][1]) : i \in DOMAIN op.ram_writes}
          /\ seg_loaded' = seg_loaded \cup {PageOf(pc)} \cup op.page_loads
          /\ exit_code' = op.exit_code
          /\ loop_pc' = IF op.exit_code = NoExit THEN "check" ELSE "split"
    /\ pc' = pc + WORD_SIZE
    /\ pending_op' = None
    /\ committed' = committed + 1
    /\ UNCHANGED <<config, segment_limit, prev_segment_cycles, segments, journal,
                   input_pos, session, error, handler_calls>>

(* ------------------------------- split -------------------------------- *)

\* The write cycles taken for the finished segment whatever its exit code.
split_write_cycles_kept(e, wc) == wc

\* The write cycles split takes for the finished segment.
split_write_cycles(e, wc) == IF e.kind = "Halted" THEN 0 ELSE wc

\* The next pre_image: dirty pages and registers folded in, pages hashed.
split_image(img, memory, registers, at, faults) ==
    hash_pages(regs_to_image(ram_to_image(img, memory, faults.writes), registers, at))

\* finished_segment with the clone taken after the image was folded.
finished_segment_folded(cur, image, e, faults) ==
    [index |-> cur.index, pre_image |-> image,
     post_image_id |-> compute_id(image), exit_code |-> e,
     syscalls |-> cur.syscalls, faults |-> faults, po2 |-> cur.po2,
     split_insn |-> cur.insn_cycles, insn_cycles |-> cur.insn_cycles]

\* finished_segment with the clone taken after the index was bumped.
finished_segment_bumped(cur, image, e, faults) ==
    [index |-> cur.index + 1, pre_image |-> cur.pre_image,
     post_image_id |-> compute_id(image), exit_code |-> e,
     syscalls |-> cur.syscalls, faults |-> faults, po2 |-> cur.po2,
     split_insn |-> cur.insn_cycles, insn_cycles |-> cur.insn_cycles]

\* The segment split hands to the callback: a clone of cur_segment taken
\* before the image is folded, completed with the boundary data.
finished_segment(cur, image, e, faults) ==
    [index |-> cur.index, pre_image |-> cur.pre_image,
     post_image_id |-> compute_id(image), exit_code |-> e,
     syscalls |-> cur.syscalls, faults |-> faults, po2 |-> cur.po2,
     split_insn |-> cur.insn_cycles, insn_cycles |-> cur.insn_cycles]

\* split without the clearing of the page table.
split_page_table_kept(pt) == pt

\* The page table split leaves for the next segment.
split_page_table(pt) == clear_table(pt)

\* run_with_callback after a split, always continuing with the loop.
after_split_continue(e) == "check"

\* run_with_callback after a split: SystemSplit keeps the loop going, any
\* other exit code breaks out of it.
after_split(e) == IF e = SystemSplit THEN "check" ELSE "finish"

\* Executor::split with the callback of run: the segment is kept as its
\* own handle.
Split ==
    /\ loop_pc = "split"
    /\ LET wc == split_write_cycles(exit_code, write_cycles)
           faults == calc_page_faults(page_table)
           image == split_image(cur_segment.pre_image, ram, regs, pc, faults)
           st == start_segment([cur_segment EXCEPT !.index = @ + 1,
                                                   !.pre_image = image,
                                                   !.syscalls = <<>>],
                               0, init_cycles, fini_cycles,
                               split_page_table(page_table))
       IN /\ prev_segment_cycles' =
                 prev_segment_cycles + segment_cycle + read_cycles + wc + fini_cycles
          /\ cur_segment' = st.cur_segment
          /\ segment_limit' = st.segment_limit
          /\ segment_cycle' = st.segment_cycle
          /\ read_cycles' = st.read_cycles
          /\ write_cycles' = st.write_cycles
          /\ page_table' = st.page_table
          /\ segments' = Append(segments,
                                finished_segment(cur_segment, image, exit_code, faults))
    /\ seg_stored' = {}
    /\ seg_loaded' = {}
    /\ events' = <<>>
    /\ loop_pc' = after_split(exit_code)
    /\ UNCHANGED <<config, pc, regs, ram, pending_op, journal, input_pos, exit_code,
                   session, error, committed, handler_calls>>

(* -------------------------- run_with_callback ------------------------- *)

\* The session limit check at the end of a loop iteration, passed.
CheckSessionLimit ==
    /\ loop_pc = "check"
    /\ ~(prev_segment_cycles + segment_cycle > env.session_limit)
    /\ loop_pc' = "step"
    /\ UNCHANGED <<config, cur_segment, segment_limit, segment_cycle, read_cycles,
                   write_cycles, prev_segment_cycles, pc, regs, ram, page_table,
                   pending_op, segments, journal, input_pos, exit_code, session,
                   error, events, committed, handler_calls, seg_stored, seg_loaded>>

\* The session limit check at the end of a loop iteration, failed.
SessionLimitExceeded ==
    /\ loop_pc = "check"
    /\ prev_segment_cycles + segment_cycle > env.session_limit
    /\ error' = "Session limit exceeded"
    /\ loop_pc' = "failed"
    /\ UNCHANGED <<config, cur_segment, segment_limit, segment_cycle, read_cycles,
                   write_cycles, prev_segment_cycles, pc, regs, ram, page_table,
                   pending_op, segments, journal, input_pos, exit_code, session,
                   events, committed, handler_calls, seg_stored, seg_loaded>>

\* After the loop: the Session takes the segments and the journal bytes.
ReturnSession ==
    /\ loop_pc = "finish"
    /\ session' = [kind |-> "Session", segments |-> segments, journal |-> journal,
                   exit_code |-> exit_code]
    /\ segments' = <<>>
    /\ journal' = <<>>
    /\ loop_pc' = "done"
    /\ UNCHANGED <<config, cur_segment, segment_limit, segment_cycle, read_cycles,
                   write_cycles, prev_segment_cycles, pc, regs, ram, page_table,
                   pending_op, input_pos, exit_code, error, events, committed,
                   handler_calls, seg_stored, seg_loaded>>

\* The input stream of a run that continues where the last one stopped.
fresh_input_pos_shared(ipos) == ipos

\* The input stream of a run with the same inputs: read from its start.
fresh_input_pos(ipos) == 0

\* The caller runs the program that was executed again, from the same image
\* and with the same inputs, with env.segment_limit at its maximum instead of its
\* minimum (Executor::new and run on a fresh Executor).
RunAgain ==
    /\ loop_pc = "done"
    /\ run_no = 1
    /\ committed > 0
    /\ env.segment_limit_po2 = MIN_CYCLES_PO2
    /\ LET ex == NewExecutor([env EXCEPT !.segment_limit_po2 = MAX_CYCLES_PO2],
                             init_cycles, prog)
       IN /\ env' = ex.env
          /\ cur_segment' = ex.cur_segment
          /\ segment_limit' = ex.segment_limit
          /\ segment_cycle' = ex.segment_cycle
          /\ read_cycles' = ex.read_cycles
          /\ write_cycles' = ex.write_cycles
          /\ regs' = ex.regs
          /\ ram' = ex.ram
          /\ page_table' = ex.page_table
    /\ prev_segment_cycles' = 0
    /\ pc' = ENTRY_PC
    /\ pending_op' = None
    /\ segments' = <<>>
    /\ journal' = <<>>
    /\ input_pos' = fresh_input_pos(input_pos)
    /\ loop_pc' = "step"
    /\ exit_code' = NoExit
    /\ session' = None
    /\ error' = ""
    /\ events' = <<>>
    /\ run_no' = 2
    /\ first_run' = [kind |-> "Outcome", ram |-> ram, regs |-> regs,
                     journal |-> session.journal, exit_code |-> session.exit_code,
                     segments |-> Len(session.segments), session |-> session,
                     same_env |-> FALSE]
    /\ committed' = 0
    /\ handler_calls' = 0
    /\ seg_stored' = {}
    /\ seg_loaded' = {}
    /\ UNCHANGED <<prog, init_cycles, fini_cycles, impl_vars>>

\* The caller runs the program that was executed again on a second Executor
\* constructed from the same environment, image and entry, with the same
\* inputs.
RunSame ==
    /\ loop_pc = "done"
    /\ run_no = 1
    /\ committed > 0
    /\ LET ex == NewExecutor(env, init_cycles, prog)
       IN /\ cur_segment' = ex.cur_segment
          /\ segment_limit' = ex.segment_limit
          /\ segment_cycle' = ex.segment_cycle
          /\ read_cycles' = ex.read_cycles
          /\ write_cycles' = ex.write_cycles
          /\ regs' = ex.regs
          /\ ram' = ex.ram
          /\ page_table' = ex.page_table
    /\ prev_segment_cycles' = 0
    /\ pc' = ENTRY_PC
    /\ pending_op' = None
    /\ segments' = <<>>
    /\ journal' = <<>>
    /\ input_pos' = fresh_input_pos(input_pos)
    /\ loop_pc' = "step"
    /\ exit_code' = NoExit
    /\ session' = None
    /\ error' = ""
    /\ events' = <<>>
    /\ run_no' = 2
    /\ first_run' = [kind |-> "Outcome", ram |-> ram, regs |-> regs,
                     journal |-> session.journal, exit_code |-> session.exit_code,
                     segments |-> Len(session.segments), session |-> session,
                     same_env |-> TRUE]
    /\ committed' = 0
    /\ handler_calls' = 0
    /\ seg_stored' = {}
    /\ seg_loaded' = {}
    /\ UNCHANGED <<env, prog, init_cycles, fini_cycles, impl_vars>>

Next ==
    \/ StepECall
    \/ StepUnknownSyscall
    \/ StepRemainingOverflow
    \/ StepGrow
    \/ StepGrowAssert
    \/ StepOutOfCycles
    \/ StepLoad
    \/ StepStore
    \/ StepRegisterStore
    \/ StepPendingECall
    \/ Split
    \/ CheckSessionLimit
    \/ SessionLimitExceeded
    \/ ReturnSession
    \/ RunAgain
    \/ RunSame

Spec == Init /\ [][Next]_vars

\* split called with a Paused exit code on an Executor that has not stepped
\* yet (split is callable inside the crate, without the run loop's step).
ForcedPause ==
    /\ loop_pc = "step"
    /\ committed = 0
    /\ pending_op = None
    /\ segments = <<>>
    /\ exit_code' = Paused(0)
    /\ loop_pc' = "split"
    /\ events' = <<>>
    /\ UNCHANGED <<config, cur_segment, segment_limit, segment_cycle, read_cycles,
                   write_cycles, prev_segment_cycles, pc, regs, ram, page_table,
                   pending_op, segments, journal, input_pos, session, error,
                   committed, handler_calls, seg_stored, seg_loaded>>

NextForced ==
    \/ Next
    \/ ForcedPause

\* The runs of Spec and those that begin with a forced Paused split.
SpecForced == Init /\ [][NextForced]_vars

\* One call of run_with_callback: the loop of step, split and the session
\* limit check up to its return.
NextRun ==
    \/ StepECall
    \/ StepUnknownSyscall
    \/ StepRemainingOverflow
    \/ StepGrow
    \/ StepGrowAssert
    \/ StepOutOfCycles
    \/ StepLoad
    \/ StepStore
    \/ StepRegisterStore
    \/ StepPendingECall
    \/ Split
    \/ CheckSessionLimit
    \/ SessionLimitExceeded
    \/ ReturnSession

\* run_with_callback is sequential code: while the call has not returned,
\* failed or aborted, its next operation is executed.
SpecRun == Init /\ [][NextRun]_vars /\ WF_vars(NextRun)

(* ---------------------------- ExecutorImpl ---------------------------- *)
\* ExecutorImpl::run_with_callback (host/server/exec/executor.rs) around the
\* inner Executor of the rv32im circuit crate, whose run hands every
\* finished segment to a closure and returns a result with the final exit
\* code, output digest and post image.  The inner Executor is not part of
\* this repository's sources: what it reports is any value it may report.

exec_vars ==
    <<env, prog, cur_segment, segment_limit, segment_cycle, read_cycles,
      write_cycles, init_cycles, fini_cycles, prev_segment_cycles, pc, regs, ram,
      page_table, pending_op, segments, journal, input_pos, loop_pc, exit_code,
      session, error, events, run_no, first_run, committed, handler_calls,
      seg_stored, seg_loaded>>

\* ExitCode::SessionLimit.
SessionLimit == [kind |-> "SessionLimit"]

\* The exit codes that end the inner Executor's run.
FinalExitCodes == {Halted(0), Paused(0), SessionLimit}

\* An output digest: not set, set to Digest::ZERO, set to another digest.
OutputDigests == {"none", "zero", "set"}

\* The bytes the guest may write and the assumptions it may access.
JournalBytes == {1, 2}
AssumptionIds == {1, 2}

\* ExitCode::expects_output.
expects_output(e) == e.kind \in {"Halted", "Paused"}

\* The Output the closure attaches to a segment.
segment_output(e, digest, buf, acc) ==
    IF expects_output(e) /\ digest = "set"
    THEN [present |-> TRUE, journal |-> buf, assumptions |-> acc]
    ELSE [present |-> FALSE]

\* The session journal whenever an output digest is set, zero or not.
session_journal_any(digest, buf) ==
    IF digest # "none" THEN [present |-> TRUE, bytes |-> buf] ELSE [present |-> FALSE]

\* The session journal: the buffer iff the guest set a non-zero output.
session_journal(digest, buf) ==
    IF digest = "set" THEN [present |-> TRUE, bytes |-> buf] ELSE [present |-> FALSE]

\* The Journal buffer after the session journal was taken from it.
journal_after_take(digest, buf) == IF digest = "set" THEN <<>> ELSE buf

\* The stored image left as it was.
stored_image_kept(old, post) == old

\* The image the ExecutorImpl stores after a run.
stored_image(old, post) == post

\* The start of run_with_callback: a fresh Journal, no refs, an inner
\* Executor on a clone of the stored image.
ImplStart ==
    /\ impl_pc = "idle"
    /\ runs < MaxRuns
    /\ runs' = runs + 1
    /\ journal_buf' = <<>>
    /\ written' = <<>>
    /\ refs' = <<>>
    /\ exec_image' = impl_image
    /\ result' = None
    /\ run_accessed' = {}
    /\ resumed' = (impl_session # None)
    /\ impl_session' = None
    /\ impl_error' = ""
    /\ impl_pc' = "running"
    /\ UNCHANGED <<impl_image, accessed, profiler, exec_vars>>

\* The guest writes a byte to the journal descriptor.
GuestWrite ==
    /\ impl_pc = "running"
    /\ Len(written) < MaxJournalLen
    /\ \E b \in JournalBytes :
          /\ journal_buf' = Append(journal_buf, b)
          /\ written' = Append(written, b)
    /\ UNCHANGED <<impl_image, accessed, profiler, refs, exec_image, result,
                   impl_pc, impl_session, impl_error, runs, run_accessed, resumed, exec_vars>>

\* The guest verifies against an assumption, which is recorded as accessed.
GuestAssume ==
    /\ impl_pc = "running"
    /\ \E a \in AssumptionIds :
          /\ accessed' = accessed \cup {a}
          /\ run_accessed' = run_accessed \cup {a}
    /\ UNCHANGED <<impl_image, profiler, journal_buf, refs, exec_image, result,
                   impl_pc, impl_session, impl_error, runs, written, resumed,
                   exec_vars>>

\* The closure given to exec.run, called with a finished segment; the
\* callback succeeds.  After the segment that ends the run, exec.run
\* returns its result.
ImplSegment ==
    /\ impl_pc = "running"
    /\ Len(refs) < MaxImplSegments
    /\ \E e \in FinalExitCodes \cup {SystemSplit}, digest \in OutputDigests :
          /\ e = SystemSplit => Len(refs) + 1 < MaxImplSegments
          /\ refs' = Append(refs,
                            [index |-> Len(refs), exit_code |-> e,
                             output_digest |-> digest,
                             output |-> segment_output(e, digest, journal_buf, accessed)])
          /\ exec_image' = exec_image + 1
          /\ IF e = SystemSplit
             THEN /\ impl_pc' = "running"
                  /\ result' = None
             ELSE /\ impl_pc' = "returned"
                  /\ result' = [exit_code |-> e, output_digest |-> digest,
                                post_image |-> exec_image + 1]
    /\ UNCHANGED <<impl_image, accessed, profiler, journal_buf, impl_session,
                   impl_error, runs, written, run_accessed, resumed, exec_vars>>

\* exec.run fails, by itself or because the callback failed: the error
\* leaves run_with_callback.
ImplRunFails ==
    /\ impl_pc = "running"
    /\ impl_error' = "run failed"
    /\ impl_session' = None
    /\ impl_pc' = "idle"
    /\ UNCHANGED <<impl_image, accessed, profiler, journal_buf, refs, exec_image,
                   result, runs, written, run_accessed, resumed, exec_vars>>

\* The rest of run_with_callback after exec.run returned: the session
\* journal and the accessed assumptions are taken, the post image is
\* stored and the Session returned.
ImplFinish ==
    /\ impl_pc = "returned"
    /\ journal_buf' = journal_after_take(result.output_digest, journal_buf)
    /\ accessed' = {}
    /\ profiler' = FALSE
    /\ impl_image' = stored_image(impl_image, result.post_image)
    /\ impl_session' =
          [kind |-> "Session", refs |-> refs,
           journal |-> session_journal(result.output_digest, journal_buf),
           exit_code |-> result.exit_code, post_image |-> result.post_image,
           assumptions |-> accessed]
    /\ impl_pc' = "idle"
    /\ UNCHANGED <<refs, exec_image, result, impl_error, runs, written,
                   run_accessed, resumed, exec_vars>>

\* The rest of run_with_callback when writing the profiler report fails.
ImplProfilerFails ==
    /\ impl_pc = "returned"
    /\ profiler
    /\ journal_buf' = journal_after_take(result.output_digest, journal_buf)
    /\ accessed' = {}
    /\ profiler' = FALSE
    /\ impl_error' = "profiler report"
    /\ impl_session' = None
    /\ impl_pc' = "idle"
    /\ UNCHANGED <<impl_image, refs, exec_image, result, runs, written,
                   run_accessed, resumed, exec_vars>>

InitImpl ==
    /\ InitExecutor([segment_limit_po2 |-> MIN_CYCLES_PO2,
                     session_limit |-> CHOOSE l \in SessionLimitSet : TRUE],
                    CHOOSE ic \in InitCyclesSet : TRUE,
                    CHOOSE pr \in Programs : TRUE)
    /\ \E prof \in BOOLEAN : InitImplState(0, prof)

NextImpl ==
    \/ ImplStart
    \/ GuestWrite
    \/ GuestAssume
    \/ ImplSegment
    \/ ImplRunFails
    \/ ImplFinish
    \/ ImplProfilerFails

\* The runs of one ExecutorImpl.
SpecImpl == InitImpl /\ [][NextImpl]_vars

(* ------------------------------ properties ---------------------------- *)

\* The segments handed to the sink so far in this run, in order.
Emitted == IF session # None THEN session.segments ELSE segments

\* The run loop is between two operations of a live Executor.
Observable == loop_pc \in {"step", "check", "split", "finish", "done"}

CycleSum == segment_cycle + read_cycles + write_cycles + fini_cycles

\* C1: between operations the cycles used and reserved leave the safety
\* slot free: segment_cycle + read_cycles + write_cycles + fini_cycles + 1
\* <= segment_limit.
C1_CycleBudget == Observable => CycleSum + 1 <= segment_limit

\* C2: the post_image_id of an emitted segment is the root of the next
\* emitted segment's pre_image, and the root of the image the Executor
\* holds for the segment that follows the last emitted one.
C2_Chaining ==
    /\ \A i \in 1..(Len(Emitted) - 1) :
          Emitted[i].post_image_id = compute_id(Emitted[i + 1].pre_image)
    /\ Emitted # <<>> =>
          Emitted[Len(Emitted)].post_image_id = compute_id(cur_segment.pre_image)

\* C2 happens: two segments were emitted and the first changed the image.
C2_Witness ==
    /\ Len(Emitted) >= 2
    /\ Emitted[1].post_image_id # compute_id(Emitted[1].pre_image)
    /\ Emitted[2].post_image_id # compute_id(Emitted[2].pre_image)

\* C3: a returned Session's total cycles are within env.session_limit.
C3_SessionWithinLimit ==
    session # None => prev_segment_cycles <= env.session_limit

\* C4: no step changes register 0.
C4_RegisterZero == [][loop_pc = "step" => regs'[0] = regs[0]]_vars

\* C5: the po2 of the current segment and of every emitted segment lies in
\* [MIN_CYCLES_PO2, min(MAX_CYCLES_PO2, env.segment_limit)].
Po2InRange(po2) ==
    /\ MIN_CYCLES_PO2 <= po2
    /\ po2 <= MAX_CYCLES_PO2
    /\ po2 <= env.segment_limit_po2

C5_Po2Range ==
    Observable =>
        /\ Po2InRange(cur_segment.po2)
        /\ \A i \in DOMAIN Emitted : Po2InRange(Emitted[i].po2)

\* C6: every page marked for Store is marked for Load, in the page table
\* and in the faults of every emitted segment.
C6_StoresImplyLoads ==
    /\ page_table.dirty \subseteq page_table.loaded
    /\ \A i \in DOMAIN Emitted : Emitted[i].faults.writes \subseteq Emitted[i].faults.reads

\* C6 happens: an emitted segment stored to two leaf pages.
C6_Witness ==
    \E i \in DOMAIN Emitted :
        {PageOf(DATA_B), PageOf(DATA_D)} \subseteq Emitted[i].faults.writes

\* C7: the run with env.segment_limit at its maximum ends with the RAM,
\* registers, journal and exit code of the run with it at its minimum.
C7_SplitEquivalence ==
    (run_no = 2 /\ ~first_run.same_env /\ session # None) =>
        /\ ram = first_run.ram
        /\ regs = first_run.regs
        /\ session.journal = first_run.journal
        /\ session.exit_code = first_run.exit_code

\* C8: the sink gets every completed segment once, with indices 0, 1, 2,
\* ... in order, only in split, after the post image was hashed and before
\* the next segment commits anything.
C8_SinkOrder ==
    /\ [](/\ \A i \in DOMAIN Emitted : Emitted[i].index = i - 1
          /\ session = None => Len(segments) = cur_segment.index)
    /\ [][IF loop_pc = "split"
          THEN /\ Len(segments') = Len(segments) + 1
               /\ SubSeq(segments', 1, Len(segments)) = segments
               /\ segments'[Len(segments')].post_image_id
                     = compute_id(cur_segment'.pre_image)
               /\ cur_segment'.insn_cycles = 0
               /\ committed' = committed
          ELSE loop_pc \in {"step", "check"} => segments' = segments]_vars

\* C8 happens: the sink got a second segment and the third has not begun.
C8_Witness ==
    /\ Len(segments) >= 2
    /\ loop_pc = "check"
    /\ cur_segment.insn_cycles = 0
    /\ segments[2].insn_cycles >= 1

\* The pages touched by marking the given pages, and the root.
PathsOf(pages) == UNION {PagePath(p) : p \in pages} \cup {RootPage}

\* C9: the faults of the segment split emits hold the pages stored to and
\* loaded from in that segment and nothing marked in an earlier one, so the
\* next pre_image agrees with RAM below the SYSTEM region.
C9_FaultsOfSegment ==
    [][loop_pc = "split" =>
         LET seg == segments'[Len(segments')]
         IN /\ seg_stored \subseteq seg.faults.writes
            /\ seg_loaded \subseteq seg.faults.reads
            /\ seg.faults.writes \subseteq PathsOf(seg_stored)
            /\ seg.faults.reads \subseteq PathsOf(seg_loaded \cup seg_stored)
            /\ \A a \in WordAddrs :
                  a < SYSTEM_START => cur_segment'.pre_image.mem[a] = ram[a]
            /\ page_table' = mark_root_table(EmptyPageTable)]_vars

\* C9 happens: a segment stored to a page and a later segment did not.
C9_Witness ==
    \E i, j \in DOMAIN Emitted :
        /\ i < j
        /\ PageOf(DATA_B) \in Emitted[i].faults.writes
        /\ PageOf(DATA_B) \notin Emitted[j].faults.writes
        /\ Emitted[i].pre_image.mem[DATA_B] # Emitted[j].pre_image.mem[DATA_B]

RECURSIVE SumInsnCycles(_)
SumInsnCycles(segs) ==
    IF segs = <<>> THEN 0 ELSE Head(segs).insn_cycles + SumInsnCycles(Tail(segs))

\* C10: the insn_cycles of the emitted segments and of the current one add
\* up to the instructions committed, and split_insn is insn_cycles.
C10_InsnCycles ==
    /\ SumInsnCycles(Emitted) + cur_segment.insn_cycles = committed
    /\ \A i \in DOMAIN Emitted : Emitted[i].split_insn = Emitted[i].insn_cycles

\* C10 happens: a Session of two segments that both committed, one of them
\* after its op was deferred.
C10_Witness ==
    /\ session # None
    /\ Len(session.segments) >= 2
    /\ \A i \in DOMAIN session.segments : session.segments[i].insn_cycles >= 1
    /\ committed = ProgLen + 1

\* C11: every segment but the last of a Session ended with SystemSplit, the
\* last with Halted or Paused, which is the Session's exit code; the loop
\* goes on only after a SystemSplit and nothing is stepped after the break.
C11_ExitCodes ==
    /\ [](/\ session # None =>
               /\ session.segments # <<>>
               /\ \A i \in 1..(Len(session.segments) - 1) :
                     session.segments[i].exit_code = SystemSplit
               /\ session.segments[Len(session.segments)].exit_code.kind
                     \in {"Halted", "Paused"}
               /\ session.exit_code
                     = session.segments[Len(session.segments)].exit_code
          /\ loop_pc \in {"step", "check", "split"} =>
               \A i \in DOMAIN segments : segments[i].exit_code = SystemSplit)
    /\ [][loop_pc = "finish" =>
             /\ loop_pc' = "done"
             /\ committed' = committed
             /\ handler_calls' = handler_calls
             /\ <<pc, regs, ram, pending_op>>' = <<pc, regs, ram, pending_op>>]_vars

\* C11 happens: a Session of several segments that ended with a pause.
C11_Witness ==
    /\ session # None
    /\ Len(session.segments) >= 2
    /\ session.exit_code.kind = "Paused"

\* The value the last write of `writes` to target `t` carries.
LastWrite(writes, t) ==
    LET last == CHOOSE i \in DOMAIN writes :
                    /\ writes[i][1] = t
                    /\ \A j \in DOMAIN writes : writes[j][1] = t => j <= i
    IN writes[last][2]

Targets(writes) == {writes[i][1] : i \in DOMAIN writes}

\* C12: the commit of a Pending ECall emits InstructionStart, then one
\* RegisterSet per reg_write and one MemorySet per ram_write in the order
\* supplied; registers and RAM end as the last write to each target says
\* and are otherwise unchanged; the store cycles charged are
\* CYCLES_PER_FULL_PAGE per page that newly became dirty.
C12_ECallCommit ==
    [][(/\ loop_pc = "step"
        /\ pending_op # None
        /\ pending_op.kind = "PendingECall"
        /\ committed' = committed + 1) =>
         LET op == pending_op
         IN /\ events' =
                  <<InstructionStart(segment_cycle, pc)>>
                    \o [i \in DOMAIN op.reg_writes |->
                           RegisterSet(op.reg_writes[i][1], op.reg_writes[i][2])]
                    \o [i \in DOMAIN op.ram_writes |->
                           MemorySet(op.ram_writes[i][1], op.ram_writes[i][2])]
            /\ \A r \in Regs :
                  regs'[r] = IF r \in Targets(op.reg_writes)
                             THEN LastWrite(op.reg_writes, r) ELSE regs[r]
            /\ \A a \in WordAddrs :
                  ram'[a] = IF a \in Targets(op.ram_writes)
                            THEN LastWrite(op.ram_writes, a) ELSE ram[a]
            /\ {PageOf(a) : a \in Targets(op.ram_writes)} \subseteq page_table'.dirty
            /\ write_cycles' - write_cycles =
                  CYCLES_PER_FULL_PAGE
                    * Cardinality(page_table'.dirty \ page_table.dirty)]_vars

\* C12 happens: an ecall was committed that wrote one RAM word twice, with
\* different values.
C12_Witness ==
    \E i, j \in DOMAIN events :
        /\ i < j
        /\ events[i].type = "MemorySet"
        /\ events[j].type = "MemorySet"
        /\ events[i].addr = events[j].addr
        /\ events[i].value # events[j].value
        /\ ram[events[j].addr] = events[j].value

C14_RoundTrip ==
    (/\ Emitted # <<>>
     /\ Emitted[1].exit_code.kind = "Paused"
     /\ Emitted[1].insn_cycles = 0) =>
        /\ Emitted[1].post_image_id = compute_id(InitialImage)
        /\ Emitted[1].post_image_id = compute_id(Emitted[1].pre_image)

\* C14 happens: a Session whose only segment was paused with no instruction
\* committed.
C14_Witness ==
    /\ session # None
    /\ committed = 0
    /\ Len(session.segments) = 1
    /\ session.segments[1].exit_code.kind = "Paused"
    /\ session.segments[1].insn_cycles = 0
    /\ session.segments[1].faults.writes # {}

\* C15: after a step that grew the segment in place, the op apply was given
\* is held as the pending op.
C15_PendingOpRetained ==
    [][(/\ loop_pc = "step"
        /\ loop_pc' = "check"
        /\ cur_segment'.po2 = cur_segment.po2 + 1) =>
         pending_op' = StepOp]_vars

\* C16: a step that applies the ECall marker stores the Pending ECall the
\* syscall layer returns as the pending op and returns no exit code; PC,
\* registers, RAM, page table, the cycle counters, insn_cycles and the
\* syscall log stay as they were and no trace event is emitted.
C16_MarkerFrame ==
    [][(/\ loop_pc = "step"
        /\ pending_op = None
        /\ HasInstr(prog, pc)
        /\ prog[InstrIndex(pc)].op = "ecall"
        /\ loop_pc' = "check") =>
         /\ pending_op' = exec_ecall(prog[InstrIndex(pc)].name, regs, input_pos)
         /\ pending_op'.kind = "PendingECall"
         /\ exit_code' = NoExit
         /\ events' = <<>>
         /\ handler_calls' = handler_calls + 1
         /\ <<pc, regs, ram, page_table, segment_cycle, read_cycles, write_cycles,
              segment_limit, prev_segment_cycles, cur_segment, segments, committed>>'
              = <<pc, regs, ram, page_table, segment_cycle, read_cycles, write_cycles,
                  segment_limit, prev_segment_cycles, cur_segment, segments,
                  committed>>]_vars

\* C16 happens: a Pending ECall with register and RAM writes is held while
\* the segment it was materialised in has committed instructions and
\* recorded a syscall before.
C16_Witness ==
    /\ loop_pc = "check"
    /\ pending_op # None
    /\ pending_op.kind = "PendingECall"
    /\ pending_op.ram_writes # <<>>
    /\ pending_op.reg_writes # <<>>
    /\ cur_segment.insn_cycles >= 1
    /\ cur_segment.syscalls # <<>>

\* C17: a step whose op does not fit applies nothing of it: PC, registers,
\* RAM, page table, segment_cycle, read_cycles, write_cycles, insn_cycles
\* and everything else of the Executor but po2 and segment_limit stay as
\* they were (pending_op is emptied by step before apply runs), and no
\* trace event is emitted.
C17_NoFitFrame ==
    [][OutOfCycles =>
         /\ <<pc, regs, ram, page_table, segment_cycle, read_cycles, write_cycles,
              prev_segment_cycles, segments, journal, input_pos, committed>>'
              = <<pc, regs, ram, page_table, segment_cycle, read_cycles,
                  write_cycles, prev_segment_cycles, segments, journal, input_pos,
                  committed>>
         /\ [cur_segment EXCEPT !.po2 = 0]' = [cur_segment EXCEPT !.po2 = 0]
         /\ events' = <<>>
         /\ \/ cur_segment'.po2 = cur_segment.po2 /\ segment_limit' = segment_limit
            \/ cur_segment'.po2 = cur_segment.po2 + 1
                 /\ segment_limit' \in {segment_limit, 2 * segment_limit}]_vars

\* C17 happens: apply found that an op does not fit a segment at its cap
\* that had committed instructions and stored to RAM.
C17_Witness ==
    /\ loop_pc = "split"
    /\ exit_code = SystemSplit
    /\ cur_segment.insn_cycles >= 1
    /\ PageOf(DATA_B) \in page_table.dirty

\* C18: a step whose op does not fit a segment below the cap of
\* env.segment_limit increments po2 by one, doubles segment_limit and
\* returns no exit code; it returns SystemSplit only at the cap.
C18_GrowBeforeSplit ==
    [][OutOfCycles =>
         IF segment_limit < get_segment_limit(env)
         THEN /\ cur_segment'.po2 = cur_segment.po2 + 1
              /\ segment_limit' = 2 * segment_limit
              /\ exit_code' = NoExit
              /\ loop_pc' = "check"
              /\ segments' = segments
         ELSE /\ cur_segment'.po2 = cur_segment.po2
              /\ segment_limit' = segment_limit
              /\ exit_code' = SystemSplit
              /\ loop_pc' = "split"]_vars

\* C19: the assertion on po2 in handle_out_of_cycles never fails, and
\* segment_limit is 1 << po2 in every state of a live Executor.
C19_GrowthToCap ==
    /\ error # "assertion failed: po2 < MAX_CYCLES_PO2"
    /\ Observable => segment_limit = Pow2(cur_segment.po2)

\* C20: a split adds segment_cycle + read_cycles + W + fini_cycles to
\* prev_segment_cycles, W being write_cycles for SystemSplit and Paused and
\* 0 for Halted; the new segment starts with segment_cycle = init_cycles
\* and only the root-marking costs in read_cycles and write_cycles.
C20_SplitAccounting ==
    [][loop_pc = "split" =>
         LET W == IF exit_code.kind = "Halted" THEN 0 ELSE write_cycles
         IN /\ prev_segment_cycles' =
                  prev_segment_cycles + segment_cycle + read_cycles + W + fini_cycles
            /\ segment_cycle' = init_cycles
            /\ read_cycles' = mark_root_read_cycles
            /\ write_cycles' = mark_root_write_cycles]_vars

\* C20 happens: the loop ended with a Halted segment that had stored to a
\* leaf page, after an earlier split.
C20_Witness ==
    /\ loop_pc = "finish"
    /\ exit_code.kind = "Halted"
    /\ Len(segments) >= 2
    /\ PageOf(DATA_B) \in segments[Len(segments)].faults.writes
    /\ prev_segment_cycles > 2 * (init_cycles + fini_cycles)

\* C21: a step at an ecall whose name has no handler fails the run with
\* 'Unknown syscall': no Pending ECall is stored, no handler is invoked,
\* PC, registers, RAM and the cycle counters stay as they were, and the
\* failed run returns no Session and does nothing more.
C21_UnknownSyscall ==
    /\ [](loop_pc = "failed" => session = None)
    /\ [][loop_pc # "failed"]_vars
    /\ [][(/\ loop_pc = "step"
            /\ pending_op = None
            /\ HasInstr(prog, pc)
            /\ prog[InstrIndex(pc)].op = "ecall"
            /\ prog[InstrIndex(pc)].name \notin KnownSyscalls) =>
             /\ loop_pc' = "failed"
             /\ error' = "Unknown syscall"
             /\ pending_op' = None
             /\ handler_calls' = handler_calls
             /\ <<pc, regs, ram, page_table, segment_cycle, read_cycles,
                  write_cycles, prev_segment_cycles, cur_segment, segments,
                  journal, input_pos, committed, session>>'
                  = <<pc, regs, ram, page_table, segment_cycle, read_cycles,
                      write_cycles, prev_segment_cycles, cur_segment, segments,
                      journal, input_pos, committed, session>>]_vars

\* C21 happens: the run failed at an unknown syscall after it had committed
\* an ecall that wrote to the journal.
C21_Witness ==
    /\ loop_pc = "failed"
    /\ error = "Unknown syscall"
    /\ committed >= 1
    /\ journal # <<>>

\* C22: the Session an ExecutorImpl run returns has a journal iff the run's
\* result carries an output digest that is set and not zero, and the
\* journal is then all bytes the guest wrote in the run, in write order; a
\* segment handed to the callback carries an Output only when its exit code
\* expects output and its output digest is set and not zero, and the Output
\* holds the journal so far.
C22_SessionJournal ==
    /\ (impl_pc = "idle" /\ impl_session # None) =>
          /\ impl_session.journal.present <=> result.output_digest = "set"
          /\ impl_session.journal.present => impl_session.journal.bytes = written
    /\ \A i \in 1..Len(refs) :
          refs[i].output.present =>
            /\ expects_output(refs[i].exit_code)
            /\ refs[i].output_digest = "set"
            /\ \E n \in 0..Len(written) :
                  refs[i].output.journal = SubSeq(written, 1, n)

C22_Witness ==
    /\ impl_pc = "idle"
    /\ impl_session # None
    /\ runs = 2
    /\ result.output_digest = "zero"
    /\ written # <<>>
    /\ ~impl_session.journal.present
    /\ Len(refs) = 2
    /\ ~refs[1].output.present
    /\ refs[1].output_digest = "set"

\* C23: after a successful ExecutorImpl run the stored image is the
\* Session's post image and no assumption is left accessed; a run that
\* follows starts from that image and its Session holds only the
\* assumptions accessed in that run; a failed run leaves the stored image
\* as it was.
C23_ImageAndAssumptions ==
    /\ []((impl_pc = "idle" /\ impl_session # None) =>
            /\ impl_image = impl_session.post_image
            /\ accessed = {})
    /\ [][(impl_pc = "idle" /\ impl_session # None /\ impl_pc' = "running") =>
            exec_image' = impl_session.post_image]_vars
    /\ [][(resumed /\ impl_pc = "returned" /\ impl_session' # None) =>
            impl_session'.assumptions = run_accessed]_vars
    /\ [][impl_session' = None => impl_image' = impl_image]_vars

C23_Witness ==
    /\ impl_pc = "idle"
    /\ resumed
    /\ impl_session # None
    /\ runs = 2
    /\ Len(refs) = 1
    /\ impl_image = 2
    /\ impl_session.post_image = 2
    /\ impl_session.assumptions = {2}
    /\ accessed = {}

\* The ecalls of the program committed before the instruction at `at`, and
\* those of them that are the named syscall.
ECallsBefore(at) ==
    Cardinality({i \in DOMAIN prog : i < InstrIndex(at) /\ prog[i].op = "ecall"})

NamedECallsBefore(name, at) ==
    Cardinality({i \in DOMAIN prog :
                   i < InstrIndex(at) /\ prog[i].op = "ecall" /\ prog[i].name = name})

\* C24: the handler of an ecall is invoked exactly once between the decode
\* of the ecall and its commit, also when a growth or a split lies between
\* them: handler invocations never exceed the committed ecalls plus the one
\* in flight, the journal holds one write per sys_write, and a finished run
\* has invoked one handler and recorded one host write per committed ecall.
C24_HandlerOnce ==
    /\ handler_calls <= ECallsBefore(pc) + 1
    /\ Len(journal) <= NamedECallsBefore("sys_write", pc) + 1
    /\ loop_pc = "done" =>
          /\ handler_calls = ECallsBefore(pc)
          /\ Len(session.journal) = NamedECallsBefore("sys_write", pc)

Terminated == loop_pc \in {"done", "failed", "panicked"}

\* C26: with a finite session limit, run_with_callback terminates: it
\* returns a Session on Halted or Paused or fails; it does not grow,
\* re-materialise an ecall or split forever.
C26_Terminates ==
    /\ <>Terminated
    /\ [](loop_pc = "done" => session # None /\ session.exit_code.kind \in {"Halted", "Paused"})
    /\ [](loop_pc \in {"failed", "panicked"} => session = None /\ error # "")

C26_Witness ==
    /\ loop_pc = "failed"
    /\ error = "Session limit exceeded"
    /\ Len(segments) >= 2
    /\ \A i \in DOMAIN segments : segments[i].insn_cycles = 0
    /\ handler_calls > Len(segments)


====
